---- MODULE Spec2Model ----
(***************************************************************************)
(* Customer-Feedback: the Flask handler index() of src/app.py, its         *)
(* analysis client summarize_with_gemini() and the per-request MySQL       *)
(* connection, as a state machine.                                         *)
(*                                                                         *)
(* Python strings are sequences of one-character strings, so that strip(), *)
(* split(","), title() and ", ".join() are computed as Python computes      *)
(* them.  Python values that may be a str, None, a list or a dict are      *)
(* records [t |-> tag, v |-> payload].                                     *)
(*                                                                         *)
(* The web server may run index() on several threads at once; each request *)
(* r is one invocation with its own position pc[r] and its own locals.     *)
(* The external collaborators (the Gemini service, the MySQL driver) answer*)
(* nondeterministically with every kind of outcome the code distinguishes. *)
(* datetime.utcnow() (created_at) and the storage-assigned primary key are *)
(* not modelled: no statement below reads them.  cursor.close() and        *)
(* conn.close() are taken not to raise.                                    *)
(***************************************************************************)
EXTENDS Integers, Sequences, FiniteSets, TLC

\* Number of requests (handler invocations), all of which may overlap.
MaxReq == 2

Requests == 1..MaxReq

(***************************************************************************)
(* Python str operations                                                   *)
(***************************************************************************)
\* The cased characters: each lower-case letter with its upper-case letter,
\* and the reverse.
ToUpper == [a |-> "A", b |-> "B", c |-> "C", d |-> "D", e |-> "E", f |-> "F", g |-> "G",
            h |-> "H", i |-> "I", j |-> "J", k |-> "K", l |-> "L", m |-> "M", n |-> "N",
            o |-> "O", p |-> "P", q |-> "Q", r |-> "R", s |-> "S", t |-> "T", u |-> "U",
            v |-> "V", w |-> "W", x |-> "X", y |-> "Y", z |-> "Z"]

ToLower == [A |-> "a", B |-> "b", C |-> "c", D |-> "d", E |-> "e", F |-> "f", G |-> "g",
            H |-> "h", I |-> "i", J |-> "j", K |-> "k", L |-> "l", M |-> "m", N |-> "n",
            O |-> "o", P |-> "p", Q |-> "q", R |-> "r", S |-> "s", T |-> "t", U |-> "u",
            V |-> "v", W |-> "w", X |-> "x", Y |-> "y", Z |-> "z"]

IsLower(c) == c \in DOMAIN ToUpper

IsUpper(c) == c \in DOMAIN ToLower

IsCased(c) == IsLower(c) \/ IsUpper(c)

Upper(c) == IF IsLower(c) THEN ToUpper[c] ELSE c

Lower(c) == IF IsUpper(c) THEN ToLower[c] ELSE c

IsSpace(c) == c \in {" ", "\t", "\n"}

\* str.strip(): leading and trailing whitespace removed.
RECURSIVE LStrip(_)
LStrip(s) == IF s # <<>> /\ IsSpace(Head(s)) THEN LStrip(Tail(s)) ELSE s

RECURSIVE RStrip(_)
RStrip(s) == IF s # <<>> /\ IsSpace(s[Len(s)])
             THEN RStrip(SubSeq(s, 1, Len(s) - 1))
             ELSE s

Strip(s) == RStrip(LStrip(s))

\* str.title(): a cased character is upper-cased when the character before
\* it is not cased (or there is none), lower-cased otherwise.
Title(s) == [i \in 1..Len(s) |->
               IF i = 1 \/ ~IsCased(s[i - 1]) THEN Upper(s[i]) ELSE Lower(s[i])]

\* str.split(sep) for a one-character sep: the pieces between separators,
\* empty pieces kept ("".split(",") is [""]).
RECURSIVE SplitFrom(_, _, _)
SplitFrom(s, sep, piece) ==
    IF s = <<>> THEN <<piece>>
    ELSE IF Head(s) = sep THEN <<piece>> \o SplitFrom(Tail(s), sep, <<>>)
    ELSE SplitFrom(Tail(s), sep, Append(piece, Head(s)))

Split(s, sep) == SplitFrom(s, sep, <<>>)

\* sep.join(parts) for a list of strings.
RECURSIVE Join(_, _)
Join(sep, parts) ==
    IF parts = <<>> THEN <<>>
    ELSE IF Len(parts) = 1 THEN parts[1]
    ELSE parts[1] \o sep \o Join(sep, Tail(parts))

(***************************************************************************)
(* Python values                                                           *)
(***************************************************************************)
PyNone == [t |-> "None", v |-> <<>>]

PyStr(s) == [t |-> "str", v |-> s]

PyList(xs) == [t |-> "list", v |-> xs]

\* A dict with string keys: v is a function from its keys to values.
PyDict(f) == [t |-> "dict", v |-> f]

\* str(x) of a str and of None.
ToStr(x) == CASE x.t = "str" -> x.v
              [] x.t = "None" -> <<"N", "o", "n", "e">>

\* d.get(key, default)
DictGet(d, key, default) == IF key \in DOMAIN d.v THEN d.v[key] ELSE default

\* Literals of the source; a literal no string operation looks into is held
\* as one token.
Neutral == <<"N", "e", "u", "t", "r", "a", "l">>

MsgFeedbackRequired == PyStr(<<"Feedback text is required.">>)

MsgProductRequired == PyStr(<<"Product or service name is required.">>)

MsgSuccess == PyStr(<<"Feedback submitted successfully">>)

MsgDbError == PyStr(<<"Database error: Could not save feedback.">>)

\* f"{message} Details: {exc}"
MsgDbErrorDetails(e) == PyStr(MsgDbError.v \o <<" Details: ", e>>)

KeyMissingFallback ==
    PyDict([summary |-> PyStr(<<"Gemini API key is missing.">>),
            issues |-> PyList(<<>>),
            sentiment |-> PyStr(Neutral)])

ApiErrorFallback ==
    PyDict([summary |-> PyStr(<<"Could not analyze feedback due to an API error.">>),
            issues |-> PyList(<< PyStr(<<"Gemini API error">>) >>),
            sentiment |-> PyStr(Neutral)])

(***************************************************************************)
(* summarize_with_gemini                                                   *)
(***************************************************************************)
\* What the outbound call gave: none was made; the client, or json.loads on
\* response.text, raised; or json.loads(response.text) returned the value
\* json.
NoCall == [kind |-> "nocall", json |-> PyNone]

CallRaised == [kind |-> "raised", json |-> PyNone]

Parsed(j) == [kind |-> "parsed", json |-> j]

\* [s.strip() for s in issues.split(",") if s.strip()]
SplitIssues(s) ==
    LET pieces == Split(s, ",")
        kept == SelectSeq(pieces, LAMBDA p : Strip(p) # <<>>)
    IN  [i \in 1..Len(kept) |-> PyStr(Strip(kept[i]))]

NormalizeIssues(issues) ==
    IF issues.t = "str" THEN PyList(SplitIssues(issues.v)) ELSE issues

\* The try block after the call returned: data.get raises AttributeError on
\* anything that is not a dict, and the except clause then gives the fallback.
Normalize(data) ==
    IF data.t # "dict" THEN ApiErrorFallback
    ELSE PyDict([summary |-> DictGet(data, "summary", PyStr(<<>>)),
                 issues |-> NormalizeIssues(DictGet(data, "issues", PyList(<<>>))),
                 sentiment |->
                     PyStr(Title(ToStr(DictGet(data, "sentiment", PyStr(Neutral)))))])

\* Bug variant of AfterCall: the except clause returns the other fallback.
AfterCallWrongFallback(resp) ==
    IF resp.kind = "parsed" THEN Normalize(resp.json) ELSE KeyMissingFallback

\* Lines 83-111, the client having answered resp: the normalized payload, or
\* the fallback of the except clause.
AfterCall(resp) ==
    IF resp.kind = "parsed" THEN Normalize(resp.json) ELSE ApiErrorFallback

\* Whether ", ".join(x) returns: x is a list of str.  Anything else the
\* service can put there raises TypeError.
Joinable(x) == x.t = "list" /\ \A i \in 1..Len(x.v) : x.v[i].t = "str"

JoinIssues(x) == Join(<<",", " ">>, [i \in 1..Len(x.v) |-> x.v[i].v])

(***************************************************************************)
(* Inputs                                                                  *)
(***************************************************************************)
EmptyForm == [k \in {} |-> <<>>]

\* The forms a client posts: padded text in every field; plain text with a
\* blank customer name; a blank product name; a blank feedback text; no
\* field at all.
Forms ==
    { [customer_name |-> <<" ", "c", " ">>,
       product_name |-> <<" ", "q", " ", "q", " ">>,
       feedback_text |-> <<"\n", "g", " ">>],
      [customer_name |-> <<" ">>, product_name |-> <<"p">>, feedback_text |-> <<"f">>],
      [customer_name |-> <<" ", "c", " ">>, product_name |-> <<" ">>, feedback_text |-> <<"f">>],
      [customer_name |-> <<>>, product_name |-> <<"p">>, feedback_text |-> <<" ", "\t">>],
      EmptyForm }

Methods == {"GET", "POST"}

\* Payloads of the service: every field well-formed, in upper case; the
\* issues as one delimited string, a sentiment outside the three and no
\* summary; every field null; not an object at all.
WellFormed ==
    PyDict([summary |-> PyStr(<<"s">>),
            issues |-> PyList(<< PyStr(<<"l", "a", "t", "e">>), PyStr(<<"r", "u", "d", "e">>) >>),
            sentiment |-> PyStr(<<"N", "E", "G", "A", "T", "I", "V", "E">>)])

Delimited ==
    PyDict([issues |-> PyStr(<<"s", "l", "o", "w", ",", " ", "r", "u", "d", "e", " ", ",">>),
            sentiment |-> PyStr(<<"m", "i", "x", "e", "d">>)])

AllNull == PyDict([summary |-> PyNone, issues |-> PyNone, sentiment |-> PyNone])

NotAnObject == PyList(<<>>)

Payloads == {WellFormed, Delimited, AllNull, NotAnObject}

\* What the outbound call can give: the client or the decoding raises, or
\* the payload decodes to one of the values above.
ServiceResponses == {CallRaised} \cup {Parsed(j) : j \in Payloads}

\* Bug variant of summarize_with_gemini: the key check dropped.
SummarizeNoKeyCheck(key) ==
    {[service |-> resp, analysis |-> AfterCall(resp)] : resp \in ServiceResponses}

\* The ways a call of summarize_with_gemini under api key `key` can go: what
\* the outbound call gave (NoCall: none was made) and the dict returned.
summarize_with_gemini(key) ==
    IF key = <<>>
    THEN {[service |-> NoCall, analysis |-> KeyMissingFallback]}
    ELSE {[service |-> resp, analysis |-> AfterCall(resp)] : resp \in ServiceResponses}

\* os.getenv("GEMINI_API_KEY", ""): unset, empty, blank, or a key.
KeyEnv == { <<>>, <<" ">>, <<" ", "k", "\n">> }

\* str(exc) of the driver errors.
ConnectError == "2003: Can't connect to MySQL server"

ExecuteError == "1146: Table 'feedbacks' doesn't exist"

CommitError == "2013: Lost connection to MySQL server during query"

(***************************************************************************)
(* State                                                                   *)
(***************************************************************************)
VARIABLES
    GEMINI_API_KEY, \* the module constant, stripped
    debug,          \* app.debug
    feedbacks,      \* the committed rows of table feedbacks, in commit order
    pc,             \* pc[r]: where invocation r of index() stands
    request,        \* request[r]: method and form
    locals,         \* locals[r]: customer_name, product_name, feedback_text, feedback_id
    service,        \* service[r]: what the outbound call of r gave (NoCall: none made)
    analysis,       \* analysis[r]: the local analysis
    conn,           \* conn[r]: the connection r opened, with its uncommitted rows
    exc,            \* exc[r]: str() of the exception raised in the try block of r
    response        \* response[r]: what index() returned or raised

vars == <<GEMINI_API_KEY, debug, feedbacks, pc, request, locals, service, analysis,
          conn, exc, response>>

NoRequest == [method |-> "", form |-> EmptyForm]

NoLocals == [customer_name |-> <<>>, product_name |-> <<>>, feedback_text |-> <<>>,
             feedback_id |-> 0]

NoConn == [state |-> "none", txn |-> <<>>]

NoResponse == [kind |-> "none", message |-> PyNone]

\* return render_template("index.html", message=message)
Rendered(message) == [kind |-> "rendered", message |-> message]

\* An exception left index(): nothing is rendered.
Raised == [kind |-> "raised", message |-> PyNone]

DriverErrors == {ConnectError, ExecuteError, CommitError}

Init ==
    /\ \E raw \in KeyEnv : GEMINI_API_KEY = Strip(raw)
    /\ debug \in BOOLEAN
    /\ feedbacks = <<>>
    /\ pc = [r \in Requests |-> "idle"]
    /\ request = [r \in Requests |-> NoRequest]
    /\ locals = [r \in Requests |-> NoLocals]
    /\ service = [r \in Requests |-> NoCall]
    /\ analysis = [r \in Requests |-> PyNone]
    /\ conn = [r \in Requests |-> NoConn]
    /\ exc = [r \in Requests |-> ""]
    /\ response = [r \in Requests |-> NoResponse]

(***************************************************************************)
(* index()                                                                 *)
(***************************************************************************)
\* request.form.get(key, "").strip()
FormField(form, key) == Strip(IF key \in DOMAIN form THEN form[key] ELSE <<>>)

\* Bug variant of Validation: only the feedback text is required.
ValidationFeedbackOnly(product_name, feedback_text) ==
    IF feedback_text = <<>> THEN MsgFeedbackRequired ELSE PyNone

\* The validation message of a POST, PyNone when both required fields are there.
Validation(product_name, feedback_text) ==
    IF feedback_text = <<>> THEN MsgFeedbackRequired
    ELSE IF product_name = <<>> THEN MsgProductRequired
    ELSE PyNone

\* Bug variant of Row: product_name and feedback_text in each other's place.
RowSwapped(l, a) ==
    [feedback_id |-> l.feedback_id,
     customer_name |-> IF l.customer_name = <<>> THEN PyNone ELSE PyStr(l.customer_name),
     product_name |-> l.feedback_text,
     original_feedback |-> l.product_name,
     summary |-> a.v.summary,
     issues |-> JoinIssues(a.v.issues),
     sentiment |-> a.v.sentiment]

\* The parameters of the INSERT.
Row(l, a) ==
    [feedback_id |-> l.feedback_id,
     customer_name |-> IF l.customer_name = <<>> THEN PyNone ELSE PyStr(l.customer_name),
     product_name |-> l.product_name,
     original_feedback |-> l.feedback_text,
     summary |-> a.v.summary,
     issues |-> JoinIssues(a.v.issues),
     sentiment |-> a.v.sentiment]

\* Bug variant of DbErrorMessage: the details shown whatever app.debug is.
DbErrorMessageAlwaysDetails(dbg, e) == MsgDbErrorDetails(e)

\* The message of the except clause.
DbErrorMessage(dbg, e) == IF dbg THEN MsgDbErrorDetails(e) ELSE MsgDbError

\* Lines 119-135: a request arrives; the form is read and validated.
index_begin(r) ==
    /\ pc[r] = "idle"
    /\ \A q \in Requests : q < r => pc[q] # "idle"   \* r numbers the arrivals
    /\ \E m \in Methods, f \in Forms :
         LET form == IF m = "POST" THEN f ELSE EmptyForm
             l == [customer_name |-> FormField(form, "customer_name"),
                   product_name |-> FormField(form, "product_name"),
                   feedback_text |-> FormField(form, "feedback_text"),
                   feedback_id |-> 0]
             v == Validation(l.product_name, l.feedback_text)
         IN  /\ request' = [request EXCEPT ![r] = [method |-> m, form |-> form]]
             /\ IF m # "POST"
                THEN /\ response' = [response EXCEPT ![r] = Rendered(PyNone)]
                     /\ pc' = [pc EXCEPT ![r] = "done"]
                     /\ UNCHANGED locals
                ELSE IF v # PyNone
                THEN /\ response' = [response EXCEPT ![r] = Rendered(v)]
                     /\ pc' = [pc EXCEPT ![r] = "done"]
                     /\ locals' = [locals EXCEPT ![r] = l]
                ELSE /\ locals' = [locals EXCEPT ![r] = [l EXCEPT !.feedback_id = r]]
                     /\ pc' = [pc EXCEPT ![r] = "analyze"]
                     /\ UNCHANGED response
    /\ UNCHANGED <<GEMINI_API_KEY, debug, feedbacks, service, analysis, conn, exc>>

\* Bug variant of index_analyze: analysis kept in a module-level variable,
\* which every invocation reads.
index_analyze_shared(r) ==
    /\ pc[r] = "analyze"
    /\ \E o \in summarize_with_gemini(GEMINI_API_KEY) :
         /\ service' = [service EXCEPT ![r] = o.service]
         /\ analysis' = [q \in Requests |->
                           IF q = r \/ analysis[q].t # "None" THEN o.analysis
                           ELSE analysis[q]]
    /\ pc' = [pc EXCEPT ![r] = "connect"]
    /\ UNCHANGED <<GEMINI_API_KEY, debug, feedbacks, request, locals, conn, exc, response>>

\* Line 136: analysis = summarize_with_gemini(feedback_text)
index_analyze(r) ==
    /\ pc[r] = "analyze"
    /\ \E o \in summarize_with_gemini(GEMINI_API_KEY) :
         /\ service' = [service EXCEPT ![r] = o.service]
         /\ analysis' = [analysis EXCEPT ![r] = o.analysis]
    /\ pc' = [pc EXCEPT ![r] = "connect"]
    /\ UNCHANGED <<GEMINI_API_KEY, debug, feedbacks, request, locals, conn, exc, response>>

\* Lines 163-171: except Error as exc
db_error(r, e) ==
    /\ exc' = [exc EXCEPT ![r] = e]
    /\ response' = [response EXCEPT ![r] = Rendered(DbErrorMessage(debug, e))]
    /\ pc' = [pc EXCEPT ![r] = "done"]

\* Lines 139-140: conn = get_db_connection(); cursor = conn.cursor()
get_db_connection(r) ==
    /\ pc[r] = "connect"
    /\ \E ok \in BOOLEAN :
         IF ok
         THEN /\ conn' = [conn EXCEPT ![r] = [state |-> "open", txn |-> <<>>]]
              /\ pc' = [pc EXCEPT ![r] = "execute"]
              /\ UNCHANGED <<exc, response>>
         ELSE /\ db_error(r, ConnectError)
              /\ UNCHANGED conn
    /\ UNCHANGED <<GEMINI_API_KEY, debug, feedbacks, request, locals, service, analysis>>

\* Lines 141-158: the parameters are built (", ".join may raise TypeError,
\* which no except clause of index() catches), then the INSERT is executed.
cursor_execute(r) ==
    /\ pc[r] = "execute"
    /\ IF ~Joinable(analysis[r].v.issues)
       THEN /\ exc' = [exc EXCEPT ![r] = "TypeError"]
            /\ response' = [response EXCEPT ![r] = Raised]
            /\ pc' = [pc EXCEPT ![r] = "done"]
            /\ UNCHANGED conn
       ELSE \E ok \in BOOLEAN :
              IF ok
              THEN /\ conn' = [conn EXCEPT ![r].txn = Append(@, Row(locals[r], analysis[r]))]
                   /\ pc' = [pc EXCEPT ![r] = "commit"]
                   /\ UNCHANGED <<exc, response>>
              ELSE /\ db_error(r, ExecuteError)
                   /\ UNCHANGED conn
    /\ UNCHANGED <<GEMINI_API_KEY, debug, feedbacks, request, locals, service, analysis>>

\* Line 159: conn.commit()
conn_commit(r) ==
    /\ pc[r] = "commit"
    /\ \E ok \in BOOLEAN :
         IF ok
         THEN /\ feedbacks' = feedbacks \o conn[r].txn
              /\ conn' = [conn EXCEPT ![r].txn = <<>>]
              /\ pc' = [pc EXCEPT ![r] = "close"]
              /\ UNCHANGED <<exc, response>>
         ELSE /\ db_error(r, CommitError)
              /\ UNCHANGED <<feedbacks, conn>>
    /\ UNCHANGED <<GEMINI_API_KEY, debug, request, locals, service, analysis>>

\* Lines 160-162 and 171: cursor.close(); conn.close(); the success message.
conn_close(r) ==
    /\ pc[r] = "close"
    /\ conn' = [conn EXCEPT ![r] = [state |-> "closed", txn |-> <<>>]]
    /\ response' = [response EXCEPT ![r] = Rendered(MsgSuccess)]
    /\ pc' = [pc EXCEPT ![r] = "done"]
    /\ UNCHANGED <<GEMINI_API_KEY, debug, feedbacks, request, locals, service, analysis,
                   exc>>

\* A connection index() left open when it returned or raised is closed only
\* when the runtime reclaims the object, at some later time or never; the
\* server then rolls back what was not committed.
reclaim(r) ==
    /\ pc[r] = "done"
    /\ conn[r].state = "open"
    /\ conn' = [conn EXCEPT ![r] = [state |-> "closed", txn |-> <<>>]]
    /\ UNCHANGED <<GEMINI_API_KEY, debug, feedbacks, pc, request, locals, service,
                   analysis, exc, response>>

Next ==
    \E r \in Requests :
        \/ index_begin(r)
        \/ index_analyze(r)
        \/ get_db_connection(r)
        \/ cursor_execute(r)
        \/ conn_commit(r)
        \/ conn_close(r)
        \/ reclaim(r)

Spec == Init /\ [][Next]_vars

(***************************************************************************)
(* Vocabulary of the properties                                            *)
(***************************************************************************)
\* s is empty after trimming: it holds nothing but whitespace.
Blank(s) == \A i \in 1..Len(s) : s[i] \in {" ", "\t", "\n"}

\* t is s without its leading and trailing whitespace.
IsTrimOf(t, s) ==
    \E i \in 1..Len(s) + 1, j \in 0..Len(s) :
        /\ t = SubSeq(s, i, j)
        /\ Blank(SubSeq(s, 1, i - 1))
        /\ Blank(SubSeq(s, j + 1, Len(s)))
        /\ t # <<>> => ~Blank(<<t[1]>>) /\ ~Blank(<<t[Len(t)]>>)

\* The submitted value of a field, "" when the field is not in the form.
Submitted(r, key) ==
    IF key \in DOMAIN request[r].form THEN request[r].form[key] ELSE <<>>

IsPost(r) == request[r].method = "POST"

\* A POST with both required fields non-empty after trimming.
ValidPost(r) ==
    /\ IsPost(r)
    /\ ~Blank(Submitted(r, "product_name"))
    /\ ~Blank(Submitted(r, "feedback_text"))

RejectedPost(r) == IsPost(r) /\ ~ValidPost(r)

\* The rows of table feedbacks that request r wrote.
RowsOf(r) == SelectSeq(feedbacks, LAMBDA row : row.feedback_id = r)

\* Every row ever handed to INSERT: committed, or pending in a connection.
Inserted == {feedbacks[i] : i \in 1..Len(feedbacks)}
            \cup UNION {{conn[r].txn[i] : i \in 1..Len(conn[r].txn)} : r \in Requests}

Succeeded(r) == response[r] = Rendered(MsgSuccess)

Canonical == { <<"P", "o", "s", "i", "t", "i", "v", "e">>,
               <<"N", "e", "u", "t", "r", "a", "l">>,
               <<"N", "e", "g", "a", "t", "i", "v", "e">> }

\* The outbound call of r or the decoding of what it returned failed.
AnalysisFailed(r) ==
    \/ service[r].kind = "raised"
    \/ service[r].kind = "parsed" /\ service[r].json.t # "dict"

(***************************************************************************)
(* C1                                                                      *)
(***************************************************************************)
\* C1: a POST whose product_name or feedback_text is empty after trimming is
\* answered at once with a validation message, with no outbound call, no
\* analysis, no connection and no row; and every row ever inserted has a
\* non-empty product_name and a non-empty original_feedback.
C1_RejectedPostTouchesNothing ==
    /\ \A r \in Requests :
         RejectedPost(r) =>
            /\ pc[r] = "done"
            /\ response[r] = Rendered(IF Blank(Submitted(r, "feedback_text"))
                                      THEN MsgFeedbackRequired
                                      ELSE MsgProductRequired)
            /\ service[r] = NoCall
            /\ analysis[r].t = "None"
            /\ conn[r] = NoConn
            /\ \A row \in Inserted : row.feedback_id # r
    /\ \A row \in Inserted : row.product_name # <<>> /\ row.original_feedback # <<>>

\* A POST with a blank (not empty) product name and a feedback text was
\* rejected while another request has stored its row.
C1_Witness ==
    \E r \in Requests :
        /\ IsPost(r)
        /\ Submitted(r, "product_name") = <<" ">>
        /\ ~Blank(Submitted(r, "feedback_text"))
        /\ response[r] = Rendered(MsgProductRequired)
        /\ Len(feedbacks) > 0

(***************************************************************************)
(* C2, C3, C4                                                              *)
(***************************************************************************)
\* C2: the sentiment summarize_with_gemini returns, and so the sentiment of
\* every inserted row, is one of Positive, Neutral, Negative.
C2_SentimentCanonical ==
    /\ \A r \in Requests :
         analysis[r].t = "dict" => analysis[r].v.sentiment.v \in Canonical
    /\ \A row \in Inserted : row.sentiment.v \in Canonical

\* C3: the issues summarize_with_gemini returns are a list of strings.
C3_IssuesListOfStrings ==
    \A r \in Requests :
        analysis[r].t = "dict" =>
            /\ analysis[r].v.issues.t = "list"
            /\ \A i \in 1..Len(analysis[r].v.issues.v) :
                 analysis[r].v.issues.v[i].t = "str"

\* C4: every request ends with a rendered response; no exception leaves
\* index().
C4_EveryRequestRenders ==
    \A r \in Requests : pc[r] = "done" => response[r].kind = "rendered"

(***************************************************************************)
(* C5                                                                      *)
(***************************************************************************)
\* C5: with the API key absent or empty no outbound call is ever made, and
\* the analysis of every validated submission is the key-missing fallback.
C5_NoKeyNoCall ==
    GEMINI_API_KEY = <<>> =>
        \A r \in Requests :
            /\ service[r] = NoCall
            /\ ValidPost(r) /\ pc[r] # "analyze" =>
                 /\ analysis[r].t = "dict"
                 /\ analysis[r].v.summary = PyStr(<<"Gemini API key is missing.">>)
                 /\ analysis[r].v.issues = PyList(<<>>)
                 /\ analysis[r].v.sentiment = PyStr(Neutral)

\* Without a key a submission was stored, carrying the fallback.
C5_Witness ==
    /\ GEMINI_API_KEY = <<>>
    /\ \E r \in Requests :
         /\ Succeeded(r)
         /\ Len(RowsOf(r)) = 1
         /\ RowsOf(r)[1].summary = PyStr(<<"Gemini API key is missing.">>)
         /\ RowsOf(r)[1].issues = <<>>

(***************************************************************************)
(* C6                                                                      *)
(***************************************************************************)
\* C6: when the outbound call or the decoding of its payload fails, the
\* analysis is the API-error fallback, the handler still goes on to the
\* insert with those values, and once the database has committed the row the
\* response is the success message.
C6_AnalysisFailureDoesNotBlock ==
    \A r \in Requests :
        AnalysisFailed(r) =>
            /\ GEMINI_API_KEY # <<>>
            /\ analysis[r].t = "dict"
            /\ analysis[r].v.summary
                 = PyStr(<<"Could not analyze feedback due to an API error.">>)
            /\ analysis[r].v.issues = PyList(<< PyStr(<<"Gemini API error">>) >>)
            /\ analysis[r].v.sentiment = PyStr(Neutral)
            /\ pc[r] \in {"connect", "execute", "commit", "close", "done"}
            /\ pc[r] \in {"commit", "close", "done"} => exc[r] # "TypeError"
            /\ pc[r] = "commit" =>
                 /\ Len(conn[r].txn) = 1
                 /\ conn[r].txn[1].issues = <<"Gemini API error">>
                 /\ conn[r].txn[1].sentiment = PyStr(Neutral)
            /\ pc[r] = "done" =>
                 /\ response[r].kind = "rendered"
                 /\ exc[r] \in DriverErrors \cup {""}
                 /\ exc[r] = "" <=> Succeeded(r)
                 /\ exc[r] = "" =>
                      /\ Len(RowsOf(r)) = 1
                      /\ RowsOf(r)[1].issues = <<"Gemini API error">>
                      /\ RowsOf(r)[1].sentiment = PyStr(Neutral)
                      /\ RowsOf(r)[1].summary = analysis[r].v.summary

\* The call raised, and the record with the fallback values was stored and
\* reported as a success.
C6_Witness ==
    \E r \in Requests :
        /\ service[r] = CallRaised
        /\ Succeeded(r)
        /\ Len(RowsOf(r)) = 1
        /\ RowsOf(r)[1].issues = <<"Gemini API error">>

Committed == {r \in Requests : Succeeded(r) \/ pc[r] = "close"}

C8_State ==
    /\ \A r \in Requests :
         /\ ValidPost(r) /\ pc[r] = "done" /\ exc[r] = "" => Succeeded(r)
         /\ r \in Committed =>
              /\ ValidPost(r)
              /\ Len(RowsOf(r)) = 1
              /\ IsTrimOf(RowsOf(r)[1].product_name, Submitted(r, "product_name"))
              /\ IsTrimOf(RowsOf(r)[1].original_feedback, Submitted(r, "feedback_text"))
         /\ r \notin Committed => RowsOf(r) = <<>>
    /\ Len(feedbacks) = Cardinality(Committed)
    /\ \A i \in 1..Len(feedbacks) : feedbacks[i].feedback_id \in Requests

C8_Step ==
    /\ Len(feedbacks') \in {Len(feedbacks), Len(feedbacks) + 1}
    /\ SubSeq(feedbacks', 1, Len(feedbacks)) = feedbacks

\* C8: a valid POST whose database operations succeed is answered with the
\* success message and has exactly one row, holding the trimmed product name
\* and feedback text; a request that did not succeed has no row; the number
\* of rows is the number of successes; and the table only grows, one row at
\* a time, its earlier rows unchanged.
C8_AppendOnly == []C8_State /\ [][C8_Step]_vars

\* A POST with padded fields was stored trimmed, while a GET and a POST that
\* met a driver error left no row.
C8_Witness ==
    \E r \in Requests :
        /\ Succeeded(r)
        /\ Submitted(r, "product_name") = <<" ", "q", " ", "q", " ">>
        /\ Submitted(r, "feedback_text") = <<"\n", "g", " ">>
        /\ feedbacks[1].feedback_id = r
        /\ feedbacks[1].product_name = <<"q", " ", "q">>
        /\ feedbacks[1].original_feedback = <<"g">>
        /\ Len(feedbacks) = 1
        /\ \E q \in Requests : pc[q] = "done" /\ exc[q] \in DriverErrors

(***************************************************************************)
(* C9                                                                      *)
(***************************************************************************)
\* C9: no connection is open once the request that opened it has returned.
C9_NoConnectionOutlivesRequest ==
    \A r \in Requests : pc[r] = "done" => conn[r].state # "open"

(***************************************************************************)
(* C10                                                                     *)
(***************************************************************************)
\* What index() computes from the request of r alone.
OwnLocals(r) ==
    [customer_name |-> Strip(Submitted(r, "customer_name")),
     product_name |-> Strip(Submitted(r, "product_name")),
     feedback_text |-> Strip(Submitted(r, "feedback_text")),
     feedback_id |-> IF ValidPost(r) THEN r ELSE 0]

OwnAnalysis(r) ==
    IF service[r].kind = "nocall" THEN KeyMissingFallback ELSE AfterCall(service[r])

\* The response of r as its own form, analysis and database outcome give it.
OwnResponse(r) ==
    IF ~IsPost(r) THEN Rendered(PyNone)
    ELSE IF Blank(Submitted(r, "feedback_text")) THEN Rendered(MsgFeedbackRequired)
    ELSE IF Blank(Submitted(r, "product_name")) THEN Rendered(MsgProductRequired)
    ELSE IF exc[r] = "TypeError" THEN Raised
    ELSE IF exc[r] \in DriverErrors THEN Rendered(DbErrorMessage(debug, exc[r]))
    ELSE Rendered(MsgSuccess)

Stored == {r \in Requests : ValidPost(r) /\ pc[r] = "done" /\ exc[r] = ""}

C10_State ==
    LET inserted == Inserted
    IN  /\ \A r \in Requests :
             pc[r] # "idle" =>
                LET own == OwnLocals(r)
                    analyzed == ValidPost(r) /\ pc[r] # "analyze"
                    result == OwnAnalysis(r)
                IN  /\ IsPost(r) => locals[r] = own
                    /\ analyzed => analysis[r] = result
                    /\ ~analyzed => analysis[r].t = "None"
                    /\ \A row \in inserted :
                         row.feedback_id = r => row = Row(own, result)
                    /\ pc[r] = "done" => response[r] = OwnResponse(r)
        /\ (\A r \in Requests : pc[r] \in {"idle", "done"}) =>
             /\ {feedbacks[i] : i \in 1..Len(feedbacks)}
                  = {Row(OwnLocals(r), OwnAnalysis(r)) : r \in Stored}
             /\ Len(feedbacks) = Cardinality(Stored)

\* A step is the step of one request: it leaves what belongs to the other
\* requests, and the module-level configuration, as they are.
C10_Step ==
    /\ GEMINI_API_KEY' = GEMINI_API_KEY
    /\ debug' = debug
    /\ \E r \in Requests :
         \A q \in Requests \ {r} :
            /\ pc'[q] = pc[q]
            /\ request'[q] = request[q]
            /\ locals'[q] = locals[q]
            /\ service'[q] = service[q]
            /\ analysis'[q] = analysis[q]
            /\ conn'[q] = conn[q]
            /\ exc'[q] = exc[q]
            /\ response'[q] = response[q]

\* C10: under every interleaving, what a request holds, answers and writes
\* is what its own form, its own analysis outcome and its own database
\* outcome give; no step touches another request or the configuration; and
\* when all requests have returned the table holds exactly the rows of the
\* requests that succeeded, as after running them one after another.
C10_RequestsIndependent == []C10_State /\ [][C10_Step]_vars

\* Two overlapping valid POSTs with different forms and different analysis
\* outcomes both succeeded, the one that arrived second committing first.
C10_Witness ==
    /\ MaxReq >= 2
    /\ Len(feedbacks) = 2
    /\ feedbacks[1].feedback_id = 2
    /\ feedbacks[2].feedback_id = 1
    /\ Succeeded(1) /\ Succeeded(2)
    /\ feedbacks[1].product_name # feedbacks[2].product_name
    /\ feedbacks[1].sentiment # feedbacks[2].sentiment
    /\ service[1].kind = "parsed" /\ service[2].kind = "raised"

====
